---- MODULE Spec2Model ----
(***************************************************************************)
(* Model of moot.py: run_command supervising one child process, slurp, the *)
(* input pump (handle_input), the two output pumps (handle_output), the    *)
(* wait loop (wait_for_process) and the signal latch                       *)
(* (setup_signal_handler).                                                 *)
(*                                                                         *)
(* Bytes are one-character strings, byte strings are sequences of them.    *)
(* The clock advances by one on every time.time() read.                    *)
(***************************************************************************)
EXTENDS Integers, Sequences, FiniteSets, TLC

\* ---------------------------------------------------------------- bounds
MaxBytes == 1       \* Spec: bytes the child writes, both streams together
MaxSignals == 1     \* Spec: signal deliveries to the supervising process
MaxPumpBytes == 2   \* SpecPumps: bytes the child writes
MaxPumpSignals == 1 \* SpecPumps: signal deliveries
MaxAsmBytes == 4    \* SpecAsm: bytes the child writes (no signal is delivered)
MaxTicks == 3       \* cap on counted poll timeouts after the latch is set
MaxLatchSignals == 2 \* SpecSignals: signal deliveries
MaxInput == 3       \* SpecShell: bytes on the caller's stdin
MaxShellSignals == 1 \* SpecShell: signal deliveries
MaxJoinInput == 1   \* SpecJoin: bytes on the caller's stdin
MaxJoinSignals == 1 \* SpecJoin: signal deliveries
MaxLockBytes == 1   \* SpecLock: bytes the child writes
MaxLockSignals == 1 \* SpecLock: signal deliveries
MaxFlushBytes == 3  \* SpecFlush: bytes the child writes
PipeCap == 4        \* SpecShell: bytes the child's stdin pipe holds unread
WRITE_SIZE == 2     \* chunk size of handle_input; 4096 in the source, scaled
                    \* so that a payload of a few bytes spans several chunks

\* ------------------------------------------------------------- constants
READ_SIZE == 4096
STDOUT == 1
STDERR == 2
SIGTERM == 15
SIGINT == 2
None == 0          \* Python None (falsy): latch unset, prev_time unset, ended unset
NoReturncode == 99 \* result has no returncode attribute yet

NL == "\n"
Bytes == {"a", NL}
Kinds == {STDOUT, STDERR}
Signals == {SIGTERM, SIGINT}
ExitCodes == {0, 1}
Commands == {"/no/such/binary"}
SUPERVISOR == 3    \* lock holder id of the supervising thread

VARIABLES
    received_signal,  \* the process-wide latch
    sigsLeft,         \* signal deliveries still allowed by the bound
    bytesLeft,        \* bytes the child may still write within the bound
    exe,              \* what Popen finds: "ok", "missing", "noexec"
    command0,         \* command[0]
    spin_out,         \* TRUE iff a spinner sink was passed
    shell,            \* TRUE iff no explicit command was given (shell mode)
    shell_env,        \* shell_env encoded; <<>> when it is None
    callerStdin,      \* bytes still unread on the caller's stdin
    shell_commands,   \* what slurp returned; <<>> stands for None and b""
    childStdin,       \* "none", "pipe" (subprocess.PIPE), "inherited"
    inpipe,           \* bytes in the child's stdin pipe, not yet read
    ipc,              \* position of the stdin pump thread
    pos,              \* handle_input local
    chunks,           \* the chunks os.write has written, in order
    stdinClosed,      \* pipe.close() was called by handle_input
    lateChunks,       \* chunks written with the latch already set
    inheritedRead,    \* bytes the child read from the caller's stdin
    first,            \* wait_for_process local
    pc,               \* position of run_command
    excLatched,       \* TRUE iff the except BaseException clause was entered
    latchAtWaitExit,  \* latch value when the supervisor left the wait loop
    ticksAfterSignal, \* TimeoutExpired ticks raised with the latch already set
    sigdata,          \* local 'data' of the signalled branch (line 340)
    termCalls,        \* number of process.terminate() calls
    child,            \* "none", "running", "exited"
    childrc,          \* process.returncode once exited
    termSent,         \* TRUE iff SIGTERM was sent to the running child
    exitedFirst,      \* TRUE iff the child exited on its own with the latch unset
    written,          \* per kind: every byte the child wrote
    pipe,             \* per kind: bytes written and not yet read
    ppc,              \* per kind: position of the pump thread
    data,             \* per kind: handle_output local
    prev_data,        \* per kind: handle_output local
    prev_time,        \* per kind: handle_output local
    sawEOF,           \* per kind: the pump took the data == b"" branch
    pipeClosed,       \* per kind: pipe.close() was called
    lock,             \* None or the holder
    output,           \* result.output
    now,              \* the clock: value of the last time.time() read
    started, ended, errored, returncode

vars == <<received_signal, sigsLeft, bytesLeft, exe, command0, spin_out,
          shell, shell_env, callerStdin, shell_commands, childStdin, inpipe,
          ipc, pos, chunks, stdinClosed, lateChunks, inheritedRead, first, pc,
          excLatched, latchAtWaitExit, ticksAfterSignal, sigdata, termCalls,
          child, childrc, termSent, exitedFirst, written, pipe, ppc, data,
          prev_data, prev_time, sawEOF, pipeClosed, lock, output, now,
          started, ended, errored, returncode>>

supVars == <<first, pc, excLatched, latchAtWaitExit, ticksAfterSignal,
             sigdata, termCalls, started, ended, errored, returncode>>
childVars == <<child, childrc, termSent, exitedFirst, written>>
pumpVars == <<ppc, data, prev_data, prev_time, sawEOF, pipeClosed>>
inputVars == <<exe, command0, spin_out>>
shellVars == <<shell, shell_env, callerStdin, shell_commands>>
stdinVars == <<childStdin, inpipe, ipc, pos, chunks, stdinClosed, lateChunks,
               inheritedRead>>

\* ---------------------------------------------------------- pure helpers
Min(a, b) == IF a < b THEN a ELSE b

Last(s) == s[Len(s)]

Front(s) == SubSeq(s, 1, Len(s) - 1)

\* index of the first NL in s, 0 if there is none
RECURSIVE FindNL(_, _)
FindNL(s, i) ==
    IF i > Len(s) THEN 0
    ELSE IF s[i] = NL THEN i
    ELSE FindNL(s, i + 1)

\* bytes.split(b"\n"): always at least one segment
RECURSIVE Split(_)
Split(s) ==
    LET i == FindNL(s, 1) IN
    IF i = 0 THEN <<s>>
    ELSE <<SubSeq(s, 1, i - 1)>> \o Split(SubSeq(s, i + 1, Len(s)))

Rec(kind, ts, bytes) == [kind |-> kind, ts |-> ts, data |-> bytes]


\* ------------------------------------------------- handle_output, pure part
\* the partial buffer forgotten when its line completes
FirstLineNoPrefix(pd, lines) == lines[1]

\* line 228: the completed first line is the partial buffer plus lines[0]
FirstLine(pd, lines) == pd \o lines[1]

\* the trailing partial line dropped at EOF
FlushNothing(kind, pd, pt) == <<>>

\* lines 218-219: what the EOF branch appends
FlushAtEOF(kind, pd, pt) ==
    IF pd # <<>> THEN <<Rec(kind, pt, pd)>> ELSE <<>>

\* lines 236-237: one record per remaining line, each with its own clock read
RECURSIVE CompleteLines(_, _, _)
CompleteLines(kind, lines, t) ==
    IF lines = <<>> THEN <<>>
    ELSE <<Rec(kind, t + 1, Head(lines))>>
             \o CompleteLines(kind, Tail(lines), t + 1)

\* the partial buffer stamped again by every chunk without a newline
FeedRestamp(kind, d, pd, pt, t) ==
    LET lines == Split(d) IN
    IF Len(lines) = 1
    THEN [prev_data |-> pd \o lines[1],
          prev_time |-> t + 1,
          recs      |-> <<>>,
          now       |-> t + 1]
    ELSE LET joined == pd # <<>>
             recs1  == IF joined THEN <<Rec(kind, pt, FirstLine(pd, lines))>>
                                 ELSE <<>>
             pd1    == IF joined THEN <<>> ELSE pd
             pt1    == IF joined THEN None ELSE pt
             lines1 == IF joined THEN Tail(lines) ELSE lines
             tail   == Last(lines1) # <<>>
             pd2    == IF tail THEN pd1 \o Last(lines1) ELSE pd1
             pt2    == IF tail THEN t + 1 ELSE pt1
             t2     == IF tail THEN t + 1 ELSE t
             lines2 == Front(lines1)
         IN [prev_data |-> pd2,
             prev_time |-> pt2,
             recs      |-> recs1 \o CompleteLines(kind, lines2, t2),
             now       |-> t2 + Len(lines2)]

\* lines 221-237: one non-empty chunk d processed with locals pd, pt at clock t
Feed(kind, d, pd, pt, t) ==
    LET lines == Split(d) IN
    IF Len(lines) = 1
    THEN [prev_data |-> pd \o lines[1],
          prev_time |-> IF pt = None THEN t + 1 ELSE pt,
          recs      |-> <<>>,
          now       |-> IF pt = None THEN t + 1 ELSE t]
    ELSE LET joined == pd # <<>>
             recs1  == IF joined THEN <<Rec(kind, pt, FirstLine(pd, lines))>>
                                 ELSE <<>>
             pd1    == IF joined THEN <<>> ELSE pd
             pt1    == IF joined THEN None ELSE pt
             lines1 == IF joined THEN Tail(lines) ELSE lines
             tail   == Last(lines1) # <<>>
             pd2    == IF tail THEN pd1 \o Last(lines1) ELSE pd1
             pt2    == IF tail THEN t + 1 ELSE pt1
             t2     == IF tail THEN t + 1 ELSE t
             lines2 == Front(lines1)
         IN [prev_data |-> pd2,
             prev_time |-> pt2,
             recs      |-> recs1 \o CompleteLines(kind, lines2, t2),
             now       |-> t2 + Len(lines2)]

\* records inserted at the front of the log
PrependAll(log, recs) == recs \o log

\* list.append on result.output
AppendAll(log, recs) == log \o recs

\* ------------------------------------------------------------------ Init
\* the state when main calls run_command: setup_signal_handler has run
\* (line 253), nothing is spawned, the result does not exist yet
Fresh ==
    /\ received_signal = None
    /\ command0 \in Commands
    /\ first = TRUE
    /\ shell_commands = <<>>
    /\ childStdin = "none"
    /\ inpipe = <<>>
    /\ ipc = "unstarted"
    /\ pos = 0
    /\ chunks = <<>>
    /\ stdinClosed = FALSE
    /\ lateChunks = 0
    /\ inheritedRead = <<>>
    /\ excLatched = FALSE
    /\ latchAtWaitExit = None
    /\ ticksAfterSignal = 0
    /\ sigdata = None
    /\ termCalls = 0
    /\ child = "none"
    /\ childrc = None
    /\ termSent = FALSE
    /\ exitedFirst = FALSE
    /\ written = [k \in Kinds |-> <<>>]
    /\ pipe = [k \in Kinds |-> <<>>]
    /\ ppc = [k \in Kinds |-> "unstarted"]
    /\ data = [k \in Kinds |-> <<>>]
    /\ prev_data = [k \in Kinds |-> <<>>]
    /\ prev_time = [k \in Kinds |-> None]
    /\ sawEOF = [k \in Kinds |-> FALSE]
    /\ pipeClosed = [k \in Kinds |-> FALSE]
    /\ lock = None
    /\ output = <<>>
    /\ now = 0
    /\ started = None
    /\ ended = None
    /\ errored = TRUE
    /\ returncode = NoReturncode

\* an explicit command: lines 289-292 leave shell_commands None
Start ==
    /\ Fresh
    /\ shell = FALSE
    /\ shell_env = <<>>
    /\ callerStdin = <<>>
    /\ pc = "spawn"

Init ==
    /\ Start
    /\ exe \in {"ok", "missing", "noexec"}
    /\ spin_out \in BOOLEAN
    /\ sigsLeft = MaxSignals
    /\ bytesLeft = MaxBytes

\* a command that spawns, no spinner sink
InitPumps ==
    /\ Start
    /\ exe = "ok"
    /\ spin_out = FALSE
    /\ sigsLeft = MaxPumpSignals
    /\ bytesLeft = MaxPumpBytes

\* a command that spawns, no spinner sink, no signal
InitAsm ==
    /\ Start
    /\ exe = "ok"
    /\ spin_out = FALSE
    /\ sigsLeft = 0
    /\ bytesLeft = MaxAsmBytes

\* a command that spawns, no spinner sink, a silent child, several signals
InitSignals ==
    /\ Start
    /\ exe = "ok"
    /\ spin_out = FALSE
    /\ sigsLeft = MaxLatchSignals
    /\ bytesLeft = 0

\* the text on the caller's stdin: a prefix of one fixed text
StdinText == <<"x", "y", "z", "x", "y", "z">>

\* lines 86-100: no command given, run_command is called with shell=True,
\* shell_env from MOOT_SHELL_ENV and stdin=sys.stdin; slurp (line 290) runs
\* before anything is spawned
InitShell ==
    /\ Fresh
    /\ shell = TRUE
    /\ shell_env \in {<<>>, <<"e">>}
    /\ \E n \in 0..MaxInput : callerStdin = SubSeq(StdinText, 1, n)
    /\ pc = "slurp_check"
    /\ exe = "ok"
    /\ spin_out = FALSE
    /\ sigsLeft = MaxShellSignals
    /\ bytesLeft = 0

\* a command that spawns, a spinner sink that can fail
InitLock ==
    /\ Start
    /\ exe = "ok"
    /\ spin_out = TRUE
    /\ sigsLeft = MaxLockSignals
    /\ bytesLeft = MaxLockBytes

\* a command that spawns, no spinner sink, no signal, a short output
InitFlush ==
    /\ Start
    /\ exe = "ok"
    /\ spin_out = FALSE
    /\ sigsLeft = 0
    /\ bytesLeft = MaxFlushBytes

\* shell mode with a spinner sink and a short script
InitJoin ==
    /\ Fresh
    /\ shell = TRUE
    /\ shell_env = <<>>
    /\ \E n \in 0..MaxJoinInput : callerStdin = SubSeq(StdinText, 1, n)
    /\ pc = "slurp_check"
    /\ exe = "ok"
    /\ spin_out = TRUE
    /\ sigsLeft = MaxJoinSignals
    /\ bytesLeft = 0

\* ------------------------------------------------ the signal handler
\* lines 243-245: handler(num, frame) stores the signal number in the latch
Handler(latch, signalnum) == signalnum

SignalDelivered(s) ==
    /\ sigsLeft > 0
    /\ pc \notin {"done", "raised"}
    /\ received_signal' = Handler(received_signal, s)
    /\ sigsLeft' = sigsLeft - 1
    /\ UNCHANGED <<bytesLeft, inputVars, shellVars, stdinVars, supVars, childVars, pipe, pumpVars, lock,
                   output, now>>

\* ------------------------------------------------------------ the child
ChildWrite(k, b) ==
    /\ child = "running"
    /\ ~pipeClosed[k]
    /\ bytesLeft > 0
    /\ bytesLeft' = bytesLeft - 1
    /\ written' = [written EXCEPT ![k] = Append(@, b)]
    /\ pipe' = [pipe EXCEPT ![k] = Append(@, b)]
    /\ UNCHANGED <<received_signal, sigsLeft, inputVars, shellVars, stdinVars, supVars, child,
                   childrc, termSent, exitedFirst, pumpVars, lock, output, now>>

\* the child exits on its own; its ends of the pipes close
ChildExit(rc) ==
    /\ child = "running"
    /\ child' = "exited"
    /\ childrc' = rc
    /\ exitedFirst' = (received_signal = None)
    /\ UNCHANGED <<received_signal, sigsLeft, bytesLeft, inputVars, shellVars, stdinVars, supVars, termSent,
                   written, pipe, pumpVars, lock, output, now>>

\* the child dies of the SIGTERM sent by process.terminate()
ChildTerminated ==
    /\ child = "running"
    /\ termSent
    /\ child' = "exited"
    /\ childrc' = -SIGTERM
    /\ UNCHANGED <<received_signal, sigsLeft, bytesLeft, inputVars, shellVars, stdinVars, supVars, termSent,
                   exitedFirst, written, pipe, pumpVars, lock, output, now>>

\* ------------------------------------------------- handle_output(kind, ...)
\* line 214: while not received_signal
PumpCheck(k) ==
    /\ ppc[k] = "check"
    /\ ppc' = [ppc EXCEPT ![k] = IF received_signal # None THEN "close"
                                 ELSE "read"]
    /\ UNCHANGED <<received_signal, sigsLeft, bytesLeft, inputVars, shellVars, stdinVars, supVars, childVars,
                   pipe, data, prev_data, prev_time, sawEOF, pipeClosed,
                   lock, output, now>>

\* line 215: os.read returns 1..READ_SIZE available bytes, or b"" at EOF
PumpRead(k) ==
    /\ ppc[k] = "read"
    /\ \/ /\ pipe[k] # <<>>
          /\ \E n \in 1..Min(Len(pipe[k]), READ_SIZE) :
                /\ data' = [data EXCEPT ![k] = SubSeq(pipe[k], 1, n)]
                /\ pipe' = [pipe EXCEPT ![k] = SubSeq(@, n + 1, Len(@))]
       \/ /\ pipe[k] = <<>>
          /\ child = "exited"
          /\ data' = [data EXCEPT ![k] = <<>>]
          /\ pipe' = pipe
    /\ ppc' = [ppc EXCEPT ![k] = "lock"]
    /\ UNCHANGED <<received_signal, sigsLeft, bytesLeft, inputVars, shellVars, stdinVars, supVars, childVars,
                   prev_data, prev_time, sawEOF, pipeClosed, lock, output, now>>

\* an acquire that does not wait for the lock to be free
PumpAcquireNoWait(k) ==
    /\ ppc[k] = "lock"
    /\ lock' = k
    /\ ppc' = [ppc EXCEPT ![k] = "locked"]
    /\ UNCHANGED <<received_signal, sigsLeft, bytesLeft, inputVars, shellVars,
                   stdinVars, supVars, childVars, pipe, data, prev_data,
                   prev_time, sawEOF, pipeClosed, output, now>>

\* line 216: with lock (acquire)
PumpAcquire(k) ==
    /\ ppc[k] = "lock"
    /\ lock = None
    /\ lock' = k
    /\ ppc' = [ppc EXCEPT ![k] = "locked"]
    /\ UNCHANGED <<received_signal, sigsLeft, bytesLeft, inputVars, shellVars, stdinVars, supVars, childVars,
                   pipe, data, prev_data, prev_time, sawEOF, pipeClosed,
                   output, now>>

\* the EOF branch without its break: the pump goes on reading
PumpEOFKeepsReading(k) ==
    /\ ppc[k] = "locked"
    /\ data[k] = <<>>
    /\ output' = AppendAll(output, FlushAtEOF(k, prev_data[k], prev_time[k]))
    /\ sawEOF' = [sawEOF EXCEPT ![k] = TRUE]
    /\ lock' = None
    /\ ppc' = [ppc EXCEPT ![k] = "check"]
    /\ UNCHANGED <<received_signal, sigsLeft, bytesLeft, inputVars, shellVars,
                   stdinVars, supVars, childVars, pipe, data, prev_data,
                   prev_time, pipeClosed, now>>

\* lines 217-220: EOF branch, then the lock is released and the loop left
PumpEOF(k) ==
    /\ ppc[k] = "locked"
    /\ data[k] = <<>>
    /\ output' = AppendAll(output, FlushAtEOF(k, prev_data[k], prev_time[k]))
    /\ sawEOF' = [sawEOF EXCEPT ![k] = TRUE]
    /\ lock' = None
    /\ ppc' = [ppc EXCEPT ![k] = "close"]
    /\ UNCHANGED <<received_signal, sigsLeft, bytesLeft, inputVars, shellVars, stdinVars, supVars, childVars,
                   pipe, data, prev_data, prev_time, pipeClosed, now>>

\* lines 221-237: a chunk is split and appended, then the lock is released
PumpFeed(k) ==
    /\ ppc[k] = "locked"
    /\ data[k] # <<>>
    /\ LET r == Feed(k, data[k], prev_data[k], prev_time[k], now) IN
          /\ output' = AppendAll(output, r.recs)
          /\ prev_data' = [prev_data EXCEPT ![k] = r.prev_data]
          /\ prev_time' = [prev_time EXCEPT ![k] = r.prev_time]
          /\ now' = r.now
    /\ lock' = None
    /\ ppc' = [ppc EXCEPT ![k] = "check"]
    /\ UNCHANGED <<received_signal, sigsLeft, bytesLeft, inputVars, shellVars, stdinVars, supVars, childVars,
                   pipe, data, sawEOF, pipeClosed>>

\* line 238: pipe.close(); the thread ends
PumpClose(k) ==
    /\ ppc[k] = "close"
    /\ pipeClosed' = [pipeClosed EXCEPT ![k] = TRUE]
    /\ ppc' = [ppc EXCEPT ![k] = "done"]
    /\ UNCHANGED <<received_signal, sigsLeft, bytesLeft, inputVars, shellVars, stdinVars, supVars, childVars,
                   pipe, data, prev_data, prev_time, sawEOF, lock, output, now>>


\* line 307: stdin=(subprocess.PIPE if shell_commands else stdin)
StdinOfChild(cmds) == IF cmds # <<>> THEN "pipe" ELSE "inherited"

\* line 324: if process.stdin and shell_commands
StdinThreadStarted(cstdin, cmds) == cstdin = "pipe" /\ cmds # <<>>

\* line 325: stdin_data = (shell_env or "").encode("utf-8") + b"\n" + shell_commands
StdinData(env, cmds) == env \o <<NL>> \o cmds

\* lines 353-355: stdin_thread.join() only if the thread was started
FirstJoin(ip) == IF ip # "unstarted" THEN "join_stdin" ELSE "join_stdout"

\* ---------------------------------------------------- handle_input(pipe, data)
\* a slice that loses the last byte of every chunk
ChunkDropsByte(d, p) == SubSeq(d, p + 1, Min(p + WRITE_SIZE, Len(d)) - 1)

\* line 203: chunk = data[pos : (pos + WRITE_SIZE)]
Chunk(d, p) == SubSeq(d, p + 1, Min(p + WRITE_SIZE, Len(d)))

\* lines 202-205: the loop is left when the latch is set or no chunk is left
InputLoopEnds(sig, chunk) == sig # None \/ chunk = <<>>

InputCheck ==
    /\ ipc = "check"
    /\ ipc' = IF InputLoopEnds(received_signal,
                               Chunk(StdinData(shell_env, shell_commands), pos))
              THEN "close" ELSE "write"
    /\ UNCHANGED <<received_signal, sigsLeft, bytesLeft, inputVars, shellVars,
                   childStdin, inpipe, pos, chunks, stdinClosed, lateChunks,
                   inheritedRead, supVars, childVars, pipe, pumpVars, lock,
                   output, now>>

\* lines 206-207: os.write blocks until the pipe has room for the chunk
InputWrite ==
    /\ ipc = "write"
    /\ child = "running"
    /\ LET chunk == Chunk(StdinData(shell_env, shell_commands), pos) IN
          /\ Len(inpipe) + Len(chunk) <= PipeCap
          /\ inpipe' = inpipe \o chunk
          /\ chunks' = Append(chunks, chunk)
    /\ pos' = pos + WRITE_SIZE
    /\ lateChunks' = IF received_signal # None THEN lateChunks + 1
                     ELSE lateChunks
    /\ ipc' = "check"
    /\ UNCHANGED <<received_signal, sigsLeft, bytesLeft, inputVars, shellVars,
                   childStdin, stdinClosed, inheritedRead, supVars, childVars,
                   pipe, pumpVars, lock, output, now>>

\* line 206: the child has exited, os.write raises BrokenPipeError; nothing
\* in handle_input catches it, the thread ends and line 208 is not reached
InputWriteFails ==
    /\ ipc = "write"
    /\ child = "exited"
    /\ ipc' = "died"
    /\ UNCHANGED <<received_signal, sigsLeft, bytesLeft, inputVars, shellVars,
                   childStdin, inpipe, pos, chunks, stdinClosed, lateChunks,
                   inheritedRead, supVars, childVars, pipe, pumpVars, lock,
                   output, now>>

\* line 208: pipe.close(); the thread ends
InputClose ==
    /\ ipc = "close"
    /\ stdinClosed' = TRUE
    /\ ipc' = "done"
    /\ UNCHANGED <<received_signal, sigsLeft, bytesLeft, inputVars, shellVars,
                   childStdin, inpipe, pos, chunks, lateChunks, inheritedRead,
                   supVars, childVars, pipe, pumpVars, lock, output, now>>

\* the child reads what is in its stdin pipe
ChildReadStdin ==
    /\ child = "running"
    /\ childStdin = "pipe"
    /\ inpipe # <<>>
    /\ inpipe' = <<>>
    /\ UNCHANGED <<received_signal, sigsLeft, bytesLeft, inputVars, shellVars,
                   childStdin, ipc, pos, chunks, stdinClosed, lateChunks,
                   inheritedRead, supVars, childVars, pipe, pumpVars, lock,
                   output, now>>

\* the child was given the caller's stdin and reads what slurp left on it
ChildReadInherited ==
    /\ child = "running"
    /\ childStdin = "inherited"
    /\ callerStdin # <<>>
    /\ inheritedRead' = inheritedRead \o callerStdin
    /\ callerStdin' = <<>>
    /\ UNCHANGED <<received_signal, sigsLeft, bytesLeft, inputVars, shell,
                   shell_env, shell_commands, childStdin, inpipe, ipc, pos,
                   chunks, stdinClosed, lateChunks, supVars, childVars, pipe,
                   pumpVars, lock, output, now>>

\* ------------------------------------------------------------------ slurp
\* line 280: while not received_signal
SlurpCheck ==
    /\ pc = "slurp_check"
    /\ pc' = IF received_signal # None THEN "spawn" ELSE "slurp_read"
    /\ UNCHANGED <<received_signal, sigsLeft, bytesLeft, inputVars, shellVars,
                   stdinVars, first, excLatched, latchAtWaitExit,
                   ticksAfterSignal, sigdata, termCalls, started, ended,
                   errored, returncode, childVars, pipe, pumpVars, lock,
                   output, now>>

\* lines 281-285: os.read on the caller's stdin; b"" ends the loop
SlurpRead ==
    /\ pc = "slurp_read"
    /\ \/ /\ callerStdin = <<>>
          /\ pc' = "spawn"
          /\ UNCHANGED <<callerStdin, shell_commands>>
       \/ /\ callerStdin # <<>>
          /\ \E n \in 1..Min(Len(callerStdin), READ_SIZE) :
                /\ shell_commands' = shell_commands \o SubSeq(callerStdin, 1, n)
                /\ callerStdin' = SubSeq(callerStdin, n + 1, Len(callerStdin))
          /\ pc' = "slurp_check"
    /\ UNCHANGED <<received_signal, sigsLeft, bytesLeft, inputVars, shell,
                   shell_env, stdinVars, first, excLatched, latchAtWaitExit,
                   ticksAfterSignal, sigdata, termCalls, started, ended,
                   errored, returncode, childVars, pipe, pumpVars, lock,
                   output, now>>

\* ------------------------------------------------------------ run_command
\* the message without the command name
NotFoundRecordNoName(cmd, t) == Rec(STDERR, t, <<"Command not found: ">>)

\* lines 312-318: the record of the FileNotFoundError branch
NotFoundRecord(cmd, t) == Rec(STDERR, t, <<"Command not found: ", cmd>>)

\* line 340-342: the record of the signalled branch; str(received_signal)
ReceivedRecord(sig, t) == Rec(STDERR, t, <<"Received: ", ToString(sig)>>)

\* the exception record written to the stdout stream
ExceptionRecordStdout(t) == Rec(STDOUT, t, <<"Exception: ", "repr(e)">>)

\* lines 347-349: the record of the except BaseException branch
ExceptionRecord(t) == Rec(STDERR, t, <<"Exception: ", "repr(e)">>)

\* the signal number without the negation
SignalReturncodePositive(sig) == sig

\* line 343: result.returncode = -int(received_signal)
SignalReturncode(sig) == -sig

\* line 351
ExceptionReturncode == -2

\* line 320
NotFoundReturncode == 1

\* only negative codes counted as errors
ErroredNegative(rc) == rc < 0

\* line 359: result.errored = result.returncode != 0
Errored(rc) == rc # 0

\* the latch not consulted by the wait loop
WaitLoopNeverBreaks(sig) == FALSE

\* line 274: if received_signal: break
WaitLoopBreaks(sig) == sig # None

\* lines 294-310: the result is created and Popen succeeds
SpawnOk ==
    /\ pc = "spawn"
    /\ exe = "ok"
    /\ started' = now + 1
    /\ now' = now + 1
    /\ child' = "running"
    /\ childStdin' = StdinOfChild(shell_commands)
    /\ pc' = "start"
    /\ UNCHANGED <<received_signal, sigsLeft, bytesLeft, inputVars, shellVars, inpipe, ipc, pos, chunks,
                   stdinClosed, lateChunks, inheritedRead, first, excLatched,
                   latchAtWaitExit, ticksAfterSignal, sigdata, termCalls,
                   ended, errored, returncode, childrc, termSent, exitedFirst,
                   written, pipe, pumpVars, lock, output>>

\* lines 294-321: Popen raises FileNotFoundError, the result is returned
SpawnNotFound ==
    /\ pc = "spawn"
    /\ exe = "missing"
    /\ started' = now + 1
    /\ output' = AppendAll(output, <<NotFoundRecord(command0, now + 2)>>)
    /\ ended' = now + 3
    /\ now' = now + 3
    /\ returncode' = NotFoundReturncode
    /\ pc' = "done"
    /\ UNCHANGED <<received_signal, sigsLeft, bytesLeft, inputVars, shellVars, stdinVars, first, excLatched,
                   latchAtWaitExit, ticksAfterSignal, sigdata, termCalls,
                   errored, childVars, pipe, pumpVars, lock>>

\* lines 304-311: Popen raises an OSError that is not FileNotFoundError
\* (PermissionError for a file that is not executable); no clause catches it
SpawnRaises ==
    /\ pc = "spawn"
    /\ exe = "noexec"
    /\ started' = now + 1
    /\ now' = now + 1
    /\ pc' = "raised"
    /\ UNCHANGED <<received_signal, sigsLeft, bytesLeft, inputVars, shellVars, stdinVars, first, excLatched,
                   latchAtWaitExit, ticksAfterSignal, sigdata, termCalls,
                   ended, errored, returncode, childVars, pipe, pumpVars,
                   lock, output>>

\* lines 323-334: the lock is created and both output threads are started
StartThreads ==
    /\ pc = "start"
    /\ ppc' = [k \in Kinds |-> "check"]
    /\ ipc' = IF StdinThreadStarted(childStdin, shell_commands)
              THEN "check" ELSE "unstarted"
    /\ pc' = "wait"
    /\ UNCHANGED <<received_signal, sigsLeft, bytesLeft, inputVars, shellVars, childStdin, inpipe, pos, chunks,
                   stdinClosed, lateChunks, inheritedRead, first, excLatched,
                   latchAtWaitExit, ticksAfterSignal, sigdata, termCalls,
                   started, ended, errored, returncode, childVars, pipe,
                   data, prev_data, prev_time, sawEOF, pipeClosed, lock,
                   output, now>>

\* lines 261-264: process.wait returns because the child has exited
WaitReturns ==
    /\ pc = "wait"
    /\ child = "exited"
    /\ latchAtWaitExit' = received_signal
    /\ pc' = "after_wait"
    /\ UNCHANGED <<received_signal, sigsLeft, bytesLeft, inputVars, shellVars, stdinVars, first, excLatched,
                   ticksAfterSignal, sigdata, termCalls, started, ended,
                   errored, returncode, childVars, pipe, pumpVars, lock,
                   output, now>>

\* lines 261-263: as above, but spin_out.write("\b\b") raises
WaitReturnsRaise ==
    /\ pc = "wait"
    /\ child = "exited"
    /\ spin_out /\ ~first
    /\ latchAtWaitExit' = received_signal
    /\ excLatched' = TRUE
    /\ pc' = "exc_lock"
    /\ UNCHANGED <<received_signal, sigsLeft, bytesLeft, inputVars, shellVars, stdinVars, first,
                   ticksAfterSignal, sigdata, termCalls, started, ended,
                   errored, returncode, childVars, pipe, pumpVars, lock,
                   output, now>>

\* lines 261, 265-273: process.wait times out, the spinner is drawn
WaitTimeout ==
    /\ pc = "wait"
    /\ child = "running"
    /\ ticksAfterSignal < MaxTicks
    /\ ticksAfterSignal' = IF received_signal # None
                           THEN ticksAfterSignal + 1 ELSE ticksAfterSignal
    /\ first' = IF spin_out THEN FALSE ELSE first
    /\ pc' = "tick_check"
    /\ UNCHANGED <<received_signal, sigsLeft, bytesLeft, inputVars, shellVars, stdinVars, excLatched,
                   latchAtWaitExit, sigdata, termCalls, started, ended,
                   errored, returncode, childVars, pipe, pumpVars, lock,
                   output, now>>

\* lines 261, 265-273: process.wait times out and the spinner sink raises
WaitTimeoutRaise ==
    /\ pc = "wait"
    /\ child = "running"
    /\ spin_out
    /\ ticksAfterSignal < MaxTicks
    /\ ticksAfterSignal' = IF received_signal # None
                           THEN ticksAfterSignal + 1 ELSE ticksAfterSignal
    /\ latchAtWaitExit' = received_signal
    /\ excLatched' = TRUE
    /\ pc' = "exc_lock"
    /\ UNCHANGED <<received_signal, sigsLeft, bytesLeft, inputVars, shellVars, stdinVars, first, sigdata,
                   termCalls, started, ended, errored, returncode, childVars,
                   pipe, pumpVars, lock, output, now>>

\* lines 274-275: the latch is checked at the end of a tick
TickCheck ==
    /\ pc = "tick_check"
    /\ IF WaitLoopBreaks(received_signal)
       THEN /\ pc' = "after_wait"
            /\ latchAtWaitExit' = received_signal
       ELSE /\ pc' = "wait"
            /\ UNCHANGED latchAtWaitExit
    /\ UNCHANGED <<received_signal, sigsLeft, bytesLeft, inputVars, shellVars, stdinVars, first, excLatched,
                   ticksAfterSignal, sigdata, termCalls, started, ended,
                   errored, returncode, childVars, pipe, pumpVars, lock,
                   output, now>>

\* lines 338, 344-345: the latch is unset, the child's exit code is recorded
AfterWaitNormal ==
    /\ pc = "after_wait"
    /\ received_signal = None
    /\ returncode' = childrc
    /\ pc' = FirstJoin(ipc)
    /\ UNCHANGED <<received_signal, sigsLeft, bytesLeft, inputVars, shellVars, stdinVars, first, excLatched,
                   latchAtWaitExit, ticksAfterSignal, sigdata, termCalls,
                   started, ended, errored, childVars, pipe, pumpVars, lock,
                   output, now>>

\* lines 338-340: the latch is set; process.terminate() sends SIGTERM unless
\* the child was reaped; data = ("Received: " + str(received_signal)).encode()
AfterWaitSignalled ==
    /\ pc = "after_wait"
    /\ received_signal # None
    /\ termCalls' = termCalls + 1
    /\ termSent' = (termSent \/ child = "running")
    /\ sigdata' = received_signal
    /\ pc' = "sig_lock"
    /\ UNCHANGED <<received_signal, sigsLeft, bytesLeft, inputVars, shellVars, stdinVars, first, excLatched,
                   latchAtWaitExit, ticksAfterSignal, started, ended,
                   errored, returncode, child, childrc, exitedFirst, written,
                   pipe, pumpVars, lock, output, now>>

\* lines 341 and 348: with lock (acquire)
SupAcquire ==
    /\ pc \in {"sig_lock", "exc_lock"}
    /\ lock = None
    /\ lock' = SUPERVISOR
    /\ pc' = IF pc = "sig_lock" THEN "sig_append" ELSE "exc_append"
    /\ UNCHANGED <<received_signal, sigsLeft, bytesLeft, inputVars, shellVars, stdinVars, first, excLatched,
                   latchAtWaitExit, ticksAfterSignal, sigdata, termCalls,
                   started, ended, errored, returncode, childVars, pipe,
                   pumpVars, output, now>>

\* line 342: the synthetic record is appended and the lock released
SignalAppend ==
    /\ pc = "sig_append"
    /\ output' = AppendAll(output, <<ReceivedRecord(sigdata, now + 1)>>)
    /\ now' = now + 1
    /\ lock' = None
    /\ pc' = "sig_rc"
    /\ UNCHANGED <<received_signal, sigsLeft, bytesLeft, inputVars, shellVars, stdinVars, first, excLatched,
                   latchAtWaitExit, ticksAfterSignal, sigdata, termCalls,
                   started, ended, errored, returncode, childVars, pipe,
                   pumpVars>>

\* line 343
SignalRc ==
    /\ pc = "sig_rc"
    /\ returncode' = SignalReturncode(received_signal)
    /\ pc' = FirstJoin(ipc)
    /\ UNCHANGED <<received_signal, sigsLeft, bytesLeft, inputVars, shellVars, stdinVars, first, excLatched,
                   latchAtWaitExit, ticksAfterSignal, sigdata, termCalls,
                   started, ended, errored, childVars, pipe, pumpVars, lock,
                   output, now>>

\* line 349: the synthetic record is appended and the lock released
ExceptionAppend ==
    /\ pc = "exc_append"
    /\ output' = AppendAll(output, <<ExceptionRecord(now + 1)>>)
    /\ now' = now + 1
    /\ lock' = None
    /\ pc' = "exc_term"
    /\ UNCHANGED <<received_signal, sigsLeft, bytesLeft, inputVars, shellVars, stdinVars, first, excLatched,
                   latchAtWaitExit, ticksAfterSignal, sigdata, termCalls,
                   started, ended, errored, returncode, childVars, pipe,
                   pumpVars>>

\* lines 350-351: process.terminate(); result.returncode = -2
ExceptionTerminate ==
    /\ pc = "exc_term"
    /\ termCalls' = termCalls + 1
    /\ termSent' = (termSent \/ child = "running")
    /\ returncode' = ExceptionReturncode
    /\ pc' = FirstJoin(ipc)
    /\ UNCHANGED <<received_signal, sigsLeft, bytesLeft, inputVars, shellVars, stdinVars, first, excLatched,
                   latchAtWaitExit, ticksAfterSignal, sigdata, started, ended,
                   errored, child, childrc, exitedFirst, written, pipe,
                   pumpVars, lock, output, now>>

\* lines 353-354: stdin_thread.join() returns once the thread has ended
JoinStdin ==
    /\ pc = "join_stdin"
    /\ ipc \in {"done", "died"}
    /\ pc' = "join_stdout"
    /\ UNCHANGED <<received_signal, sigsLeft, bytesLeft, inputVars, shellVars,
                   stdinVars, first, excLatched, latchAtWaitExit,
                   ticksAfterSignal, sigdata, termCalls, started, ended,
                   errored, returncode, childVars, pipe, pumpVars, lock,
                   output, now>>

\* a join that returns while the thread is still running
JoinNoWait(k) ==
    /\ pc = (IF k = STDOUT THEN "join_stdout" ELSE "join_stderr")
    /\ pc' = (IF k = STDOUT THEN "join_stderr" ELSE "finish")
    /\ UNCHANGED <<received_signal, sigsLeft, bytesLeft, inputVars, shellVars,
                   stdinVars, first, excLatched, latchAtWaitExit,
                   ticksAfterSignal, sigdata, termCalls, started, ended,
                   errored, returncode, childVars, pipe, pumpVars, lock,
                   output, now>>

\* lines 355-356: stdout_thread.join(), stderr_thread.join()
Join(k) ==
    /\ pc = (IF k = STDOUT THEN "join_stdout" ELSE "join_stderr")
    /\ ppc[k] = "done"
    /\ pc' = (IF k = STDOUT THEN "join_stderr" ELSE "finish")
    /\ UNCHANGED <<received_signal, sigsLeft, bytesLeft, inputVars, shellVars, stdinVars, first, excLatched,
                   latchAtWaitExit, ticksAfterSignal, sigdata, termCalls,
                   started, ended, errored, returncode, childVars, pipe,
                   pumpVars, lock, output, now>>

\* lines 358-360
Finish ==
    /\ pc = "finish"
    /\ ended' = now + 1
    /\ now' = now + 1
    /\ errored' = Errored(returncode)
    /\ pc' = "done"
    /\ UNCHANGED <<received_signal, sigsLeft, bytesLeft, inputVars, shellVars, stdinVars, first, excLatched,
                   latchAtWaitExit, ticksAfterSignal, sigdata, termCalls,
                   started, returncode, childVars, pipe, pumpVars, lock,
                   output>>

\* ------------------------------------------------------------------ Next
\* every step of run_command, its threads, the child and the signal handler;
\* here the child writes unterminated bytes, the line structure of its
\* output is exercised by SpecPumps and SpecAsm
Next ==
    \/ \E s \in Signals : SignalDelivered(s)
    \/ \E k \in Kinds : ChildWrite(k, "a")
    \/ \E rc \in ExitCodes : ChildExit(rc)
    \/ ChildTerminated
    \/ \E k \in Kinds : PumpCheck(k)
    \/ \E k \in Kinds : PumpRead(k)
    \/ \E k \in Kinds : PumpAcquire(k)
    \/ \E k \in Kinds : PumpEOF(k)
    \/ \E k \in Kinds : PumpFeed(k)
    \/ \E k \in Kinds : PumpClose(k)
    \/ SpawnOk
    \/ SpawnNotFound
    \/ SpawnRaises
    \/ StartThreads
    \/ WaitReturns
    \/ WaitReturnsRaise
    \/ WaitTimeout
    \/ WaitTimeoutRaise
    \/ TickCheck
    \/ AfterWaitNormal
    \/ AfterWaitSignalled
    \/ SupAcquire
    \/ SignalAppend
    \/ SignalRc
    \/ ExceptionAppend
    \/ ExceptionTerminate
    \/ \E k \in Kinds : Join(k)
    \/ Finish

Spec == Init /\ [][Next]_vars

\* the steps possible without a spinner sink, with a command that spawns and
\* exits with 0, when SIGTERM is the signal delivered
NextPumps ==
    \/ SignalDelivered(SIGTERM)
    \/ \E k \in Kinds, b \in Bytes : ChildWrite(k, b)
    \/ ChildExit(0)
    \/ ChildTerminated
    \/ \E k \in Kinds : PumpCheck(k)
    \/ \E k \in Kinds : PumpRead(k)
    \/ \E k \in Kinds : PumpAcquire(k)
    \/ \E k \in Kinds : PumpEOF(k)
    \/ \E k \in Kinds : PumpFeed(k)
    \/ \E k \in Kinds : PumpClose(k)
    \/ SpawnOk
    \/ StartThreads
    \/ WaitReturns
    \/ WaitTimeout
    \/ TickCheck
    \/ AfterWaitNormal
    \/ AfterWaitSignalled
    \/ SupAcquire
    \/ SignalAppend
    \/ SignalRc
    \/ \E k \in Kinds : Join(k)
    \/ Finish

SpecPumps == InitPumps /\ [][NextPumps]_vars

\* the steps possible when, in addition, no signal is delivered
NextAsm ==
    \/ \E k \in Kinds, b \in Bytes : ChildWrite(k, b)
    \/ ChildExit(0)
    \/ \E k \in Kinds : PumpCheck(k)
    \/ \E k \in Kinds : PumpRead(k)
    \/ \E k \in Kinds : PumpAcquire(k)
    \/ \E k \in Kinds : PumpEOF(k)
    \/ \E k \in Kinds : PumpFeed(k)
    \/ \E k \in Kinds : PumpClose(k)
    \/ SpawnOk
    \/ StartThreads
    \/ WaitReturns
    \/ WaitTimeout
    \/ TickCheck
    \/ AfterWaitNormal
    \/ \E k \in Kinds : Join(k)
    \/ Finish

SpecAsm == InitAsm /\ [][NextAsm]_vars

SpecFlush == InitFlush /\ [][NextAsm]_vars

\* every thread that appends to result.output: both pumps and the
\* supervisor's signalled and exception branches
NextLock ==
    \/ \E s \in Signals : SignalDelivered(s)
    \/ \E k \in Kinds : ChildWrite(k, "a")
    \/ \E rc \in ExitCodes : ChildExit(rc)
    \/ ChildTerminated
    \/ \E k \in Kinds : PumpCheck(k)
    \/ \E k \in Kinds : PumpRead(k)
    \/ \E k \in Kinds : PumpAcquire(k)
    \/ \E k \in Kinds : PumpEOF(k)
    \/ \E k \in Kinds : PumpFeed(k)
    \/ \E k \in Kinds : PumpClose(k)
    \/ SpawnOk
    \/ StartThreads
    \/ WaitReturns
    \/ WaitReturnsRaise
    \/ WaitTimeout
    \/ WaitTimeoutRaise
    \/ TickCheck
    \/ AfterWaitNormal
    \/ AfterWaitSignalled
    \/ SupAcquire
    \/ SignalAppend
    \/ SignalRc
    \/ ExceptionAppend
    \/ ExceptionTerminate
    \/ \E k \in Kinds : Join(k)
    \/ Finish

SpecLock == InitLock /\ [][NextLock]_vars

\* a silent child and up to MaxLatchSignals deliveries of either signal
NextSignals ==
    \/ \E s \in Signals : SignalDelivered(s)
    \/ ChildExit(0)
    \/ ChildTerminated
    \/ \E k \in Kinds : PumpCheck(k)
    \/ \E k \in Kinds : PumpRead(k)
    \/ \E k \in Kinds : PumpAcquire(k)
    \/ \E k \in Kinds : PumpEOF(k)
    \/ \E k \in Kinds : PumpClose(k)
    \/ SpawnOk
    \/ StartThreads
    \/ WaitReturns
    \/ WaitTimeout
    \/ TickCheck
    \/ AfterWaitNormal
    \/ AfterWaitSignalled
    \/ SupAcquire
    \/ SignalAppend
    \/ SignalRc
    \/ \E k \in Kinds : Join(k)
    \/ Finish

SpecSignals == InitSignals /\ [][NextSignals]_vars

\* the steps of the main thread between spawn and return
SupStep ==
    \/ SpawnOk
    \/ StartThreads
    \/ WaitReturns
    \/ WaitTimeout
    \/ TickCheck
    \/ AfterWaitNormal
    \/ AfterWaitSignalled
    \/ SupAcquire
    \/ SignalAppend
    \/ SignalRc
    \/ \E k \in Kinds : Join(k)
    \/ Finish

\* the steps of the handle_output thread of kind k
PumpStep(k) ==
    \/ PumpCheck(k)
    \/ PumpRead(k)
    \/ PumpAcquire(k)
    \/ PumpEOF(k)
    \/ PumpClose(k)

\* every thread of the program is scheduled fairly; nothing is assumed of
\* the child (it may ignore SIGTERM and never exit) or of signal senders
SpecLive ==
    /\ InitSignals
    /\ [][NextSignals]_vars
    /\ WF_vars(SupStep)
    /\ \A k \in Kinds : WF_vars(PumpStep(k))

\* shell mode: the script comes from the caller's stdin
NextShell ==
    \/ SignalDelivered(SIGTERM)
    \/ ChildExit(0)
    \/ ChildTerminated
    \/ ChildReadStdin
    \/ ChildReadInherited
    \/ SlurpCheck
    \/ SlurpRead
    \/ InputCheck
    \/ InputWrite
    \/ InputWriteFails
    \/ InputClose
    \/ \E k \in Kinds : PumpCheck(k)
    \/ \E k \in Kinds : PumpRead(k)
    \/ \E k \in Kinds : PumpAcquire(k)
    \/ \E k \in Kinds : PumpEOF(k)
    \/ \E k \in Kinds : PumpClose(k)
    \/ SpawnOk
    \/ StartThreads
    \/ WaitReturns
    \/ WaitTimeout
    \/ TickCheck
    \/ AfterWaitNormal
    \/ AfterWaitSignalled
    \/ SupAcquire
    \/ SignalAppend
    \/ SignalRc
    \/ JoinStdin
    \/ \E k \in Kinds : Join(k)
    \/ Finish

SpecShell == InitShell /\ [][NextShell]_vars

\* shell mode with every way run_command can leave its wait: the child
\* exits, the latch is set, the spinner sink raises
NextJoin ==
    \/ SignalDelivered(SIGTERM)
    \/ ChildExit(0)
    \/ ChildTerminated
    \/ ChildReadStdin
    \/ ChildReadInherited
    \/ SlurpCheck
    \/ SlurpRead
    \/ InputCheck
    \/ InputWrite
    \/ InputWriteFails
    \/ InputClose
    \/ \E k \in Kinds : PumpCheck(k)
    \/ \E k \in Kinds : PumpRead(k)
    \/ \E k \in Kinds : PumpAcquire(k)
    \/ \E k \in Kinds : PumpEOF(k)
    \/ \E k \in Kinds : PumpClose(k)
    \/ SpawnOk
    \/ StartThreads
    \/ WaitReturns
    \/ WaitReturnsRaise
    \/ WaitTimeout
    \/ WaitTimeoutRaise
    \/ TickCheck
    \/ AfterWaitNormal
    \/ AfterWaitSignalled
    \/ SupAcquire
    \/ SignalAppend
    \/ SignalRc
    \/ ExceptionAppend
    \/ ExceptionTerminate
    \/ JoinStdin
    \/ \E k \in Kinds : Join(k)
    \/ Finish

SpecJoin == InitJoin /\ [][NextJoin]_vars

TypeOK ==
    /\ received_signal \in Signals \cup {None}
    /\ pc \in {"spawn", "start", "wait", "tick_check", "after_wait",
               "sig_lock", "sig_append", "sig_rc",
               "exc_lock", "exc_append", "exc_term", "join_stdin",
               "join_stdout", "slurp_check", "slurp_read",
               "join_stderr", "finish", "done", "raised"}
    /\ child \in {"none", "running", "exited"}
    /\ \A k \in Kinds : ppc[k] \in {"unstarted", "check", "read", "lock",
                                     "locked", "close", "done"}
    /\ lock \in {None, STDOUT, STDERR, SUPERVISOR}


\* ---------------------------------------------------- reading the result
\* a record appended by run_command itself, not by a pump
IsSynthetic(r) == Len(r.data) > 0 /\ r.data[1] \notin Bytes

\* the records a pump of kind k appended, in log order
PumpRecords(k) ==
    SelectSeq(output, LAMBDA r : r.kind = k /\ ~IsSynthetic(r))

Payloads(k) ==
    [i \in 1..Len(PumpRecords(k)) |-> PumpRecords(k)[i].data]

SyntheticRecords(prefix) ==
    SelectSeq(output, LAMBDA r : IsSynthetic(r) /\ r.data[1] = prefix)

\* a byte stream split on NL with a final empty segment dropped
SplitLines(s) ==
    LET p == Split(s) IN IF Last(p) = <<>> THEN Front(p) ELSE p

RECURSIVE JoinNL(_)
JoinNL(lines) ==
    IF lines = <<>> THEN <<>>
    ELSE IF Len(lines) = 1 THEN lines[1]
    ELSE lines[1] \o <<NL>> \o JoinNL(Tail(lines))

StripNL(s) == IF s # <<>> /\ Last(s) = NL THEN Front(s) ELSE s

IsPrefix(p, s) == Len(p) <= Len(s) /\ p = SubSeq(s, 1, Len(p))

NegatedSignals == {-sig : sig \in Signals}

\* ------------------------------------------------------------------ claims

\* C1: once a pump has read EOF, the line payloads it appended are the
\* stream split on NL with a final empty segment dropped, whatever the
\* chunks were; joining them with NL restores the stream up to its trailing NL.
C1_LinesAreStreamSplit ==
    \A k \in Kinds :
        sawEOF[k] =>
            /\ Payloads(k) = SplitLines(written[k])
            /\ JoinNL(Payloads(k)) = StripNL(written[k])

C1_Witness ==
    /\ sawEOF[STDOUT]
    /\ written[STDOUT] = <<"a", NL, NL, "a">>
    /\ Payloads(STDOUT) = << <<"a">>, <<>>, <<"a">> >>

\* C2 as stated: when run_command returns after a successful spawn, the
\* records of each kind carry every byte the child wrote to that stream.
C2_NoDataLoss ==
    (pc = "done" /\ child # "none") =>
        \A k \in Kinds :
            /\ JoinNL(Payloads(k)) = StripNL(written[k])
            /\ Len(Payloads(k)) = Len(SplitLines(written[k]))

\* C2 amended: when run_command returns after a successful spawn, a pump
\* that ended by reading EOF has emptied its pipe and its records carry every
\* byte the child wrote; if the latch is still unset, both pumps ended so.
C2_NoDataLossAtEOF ==
    (pc = "done" /\ child # "none") =>
        \A k \in Kinds :
            /\ received_signal = None => sawEOF[k]
            /\ sawEOF[k] =>
                  /\ pipe[k] = <<>>
                  /\ JoinNL(Payloads(k)) = StripNL(written[k])
                  /\ Len(Payloads(k)) = Len(SplitLines(written[k]))

C2_Witness ==
    /\ pc = "done"
    /\ received_signal = None
    /\ written[STDOUT] = <<"a">>
    /\ written[STDERR] = <<"a">>
    /\ Len(output) = 2

\* C3: at every moment the pump-produced records of one kind list that
\* stream's lines in the order the child wrote them (a prefix of the lines).
C3_NoReordering ==
    \A k \in Kinds : IsPrefix(Payloads(k), SplitLines(written[k]))

C3_Witness ==
    /\ pc = "done"
    /\ Len(Payloads(STDOUT)) = 2
    /\ Len(SyntheticRecords("Received: ")) = 1

\* C4 as stated: the pump-produced records of one kind have non-decreasing
\* timestamps in log order.
C4_TimeOrdered ==
    \A k \in Kinds :
        \A i, j \in 1..Len(PumpRecords(k)) :
            i < j => PumpRecords(k)[i].ts <= PumpRecords(k)[j].ts

\* C5 as stated: if the latch is set while the supervisor is in its wait
\* loop, run_command calls process.terminate(), appends exactly one
\* 'Received' record and returns a negated signal number with errored set.
C5_SignalInWait ==
    (pc = "done" /\ latchAtWaitExit # None) =>
        /\ termCalls >= 1
        /\ Len(SyntheticRecords("Received: ")) = 1
        /\ returncode \in NegatedSignals
        /\ errored

\* C5 amended: the same, provided wait_for_process returns without raising;
\* then terminate() is called once and no 'Exception' record is appended.
C5_SignalInWaitNoException ==
    (pc = "done" /\ latchAtWaitExit # None /\ ~excLatched) =>
        /\ termCalls = 1
        /\ Len(SyntheticRecords("Received: ")) = 1
        /\ SyntheticRecords("Received: ")[1].kind = STDERR
        /\ SyntheticRecords("Received: ")[1].data[2]
              \in {ToString(sig) : sig \in Signals}
        /\ Len(SyntheticRecords("Exception: ")) = 0
        /\ returncode \in NegatedSignals
        /\ errored

C5_Witness ==
    /\ pc = "done"
    /\ latchAtWaitExit = SIGTERM
    /\ ~excLatched
    /\ termSent
    /\ returncode = -SIGTERM

\* C6: after the latch is set the wait loop sees at most one more
\* TimeoutExpired tick and has left the loop after it; while the child runs,
\* the timeout of process.wait can always fire.
C6_BoundedWait ==
    /\ ticksAfterSignal <= 1
    /\ ticksAfterSignal = 1 => pc # "wait"
    /\ (pc = "wait" /\ child = "running") => ENABLED WaitTimeout

C6_Witness ==
    /\ ticksAfterSignal = 1
    /\ pc = "after_wait"
    /\ child = "running"

\* C7 as stated: if the child exits on its own before the latch is set (and
\* nothing raises), result.returncode is the child's exit code.
C7_RealExitCode ==
    (pc = "done" /\ exitedFirst /\ ~excLatched) => returncode = childrc

\* C8: on every path that returns a result, errored = (returncode # 0),
\* ended is set, and returncode is 1 after a failed spawn, -2 after an
\* exception, else the negated latch or the child's own exit code.
C8_ResultShape ==
    pc = "done" =>
        /\ errored = (returncode # 0)
        /\ ended # None
        /\ \/ child = "none" /\ exe = "missing" /\ returncode = 1
           \/ child # "none" /\ excLatched /\ returncode = -2
           \/ /\ child # "none" /\ ~excLatched
              /\ received_signal # None
              /\ returncode \in NegatedSignals
           \/ /\ child = "exited" /\ ~excLatched
              /\ returncode = childrc
              /\ childrc \in ExitCodes

C8_Witness ==
    /\ pc = "done"
    /\ child = "exited"
    /\ returncode = 0
    /\ ~errored

\* C9: when the executable does not exist, run_command returns from the
\* spawn step: no pump thread, exactly one STDERR record 'Command not found:
\* <command[0]>', returncode 1, errored, ended set.
C9_CommandNotFound ==
    exe = "missing" =>
        /\ pc \in {"spawn", "done"}
        /\ \A k \in Kinds : ppc[k] = "unstarted"
        /\ pc = "done" =>
              /\ Len(output) = 1
              /\ output[1].kind = STDERR
              /\ output[1].data = <<"Command not found: ", command0>>
              /\ returncode = 1
              /\ errored
              /\ ended # None

C9_Witness ==
    /\ exe = "missing"
    /\ pc = "done"
    /\ Len(output) = 1

\* C10 as stated: every spawn failure ends with a returned result (exit code
\* 1, one synthetic STDERR record); nothing is raised to the caller.
C10_SpawnFailureReturned ==
    (exe # "ok" /\ pc # "spawn") =>
        /\ pc = "done"
        /\ returncode = 1
        /\ Len(SyntheticRecords("Command not found: ")) = 1

\* C11: once the child was spawned, run_command returns (normally, after a
\* signal or after an exception in the wait) only when every pump thread it
\* started has ended, and result.output is never changed after the return.
C11_PumpsJoined ==
    /\ []((pc \in {"finish", "done"} /\ child # "none") =>
            /\ ipc \in {"unstarted", "done", "died"}
            /\ \A k \in Kinds : ppc[k] = "done")
    /\ [][pc = "done" => output' = output]_vars

\* the exception path returned after joining a stdin pump and both output
\* pumps
C11_Witness ==
    /\ pc = "done"
    /\ excLatched
    /\ ipc = "done"
    /\ \A k \in Kinds : ppc[k] = "done"

\* C12 as stated: every pump closes its pipe end on every way its loop can
\* end, a failed write included, so no pipe handle of a started pump is open
\* when run_command returns.
C12_PipesClosed ==
    (pc = "done" /\ child # "none") =>
        /\ \A k \in Kinds : pipeClosed[k]
        /\ (ipc # "unstarted" => stdinClosed)

\* C13 as stated: in shell mode, whatever the caller's stdin holds (nothing
\* included) and wherever slurp stops, the child's stdin is a pipe created
\* by run_command and the caller's stdin is read only before the spawn.
C13_ChildStdinIsPipe ==
    (shell /\ child # "none") =>
        /\ childStdin = "pipe"
        /\ inheritedRead = <<>>

\* C14 as stated: the handler records a signal only if the latch is unset, a
\* later delivery leaves the latch as it is, and so the exit code and the
\* 'Received' record both name the first signal.
C14_FirstSignalWins ==
    /\ [][received_signal # None => received_signal' = received_signal]_vars
    /\ []((pc = "done" /\ Len(SyntheticRecords("Received: ")) = 1) =>
            SyntheticRecords("Received: ")[1].data[2] = ToString(-returncode))

\* C15 as stated: once the latch is set, the pumps and the wait loop end and
\* run_command eventually returns when its threads are scheduled fairly,
\* even if the child ignores the termination request and keeps its output
\* pipes open.
C15_CancellationTerminates == (received_signal # None) ~> (pc = "done")

\* C16: when a pump reads EOF with the latch unset, a non-empty partial
\* buffer is appended as exactly one final record holding exactly the
\* unterminated tail of the stream, an empty buffer appends nothing, and the
\* pump then leaves its loop.
C16_FlushAtEOF ==
    /\ [][\A k \in Kinds :
            (ppc[k] = "locked" /\ data[k] = <<>> /\ ppc'[k] # "locked") =>
                /\ received_signal = None
                /\ ppc'[k] = "close"
                /\ prev_data[k] = Last(Split(written[k]))
                /\ output' = IF prev_data[k] # <<>>
                             THEN Append(output, Rec(k, prev_time[k],
                                                     prev_data[k]))
                             ELSE output]_vars
    /\ [](\A k \in Kinds : sawEOF[k] => ppc[k] \in {"close", "done"})

\* stdout ended with an unterminated "a" after an empty line: the flush
\* added the second record
C16_Witness ==
    /\ sawEOF[STDOUT]
    /\ ppc[STDOUT] = "close"
    /\ written[STDOUT] = <<NL, "a">>
    /\ Payloads(STDOUT) = << <<>>, <<"a">> >>

\* C17: a line assembled from several chunks carries the time its partial
\* buffer was opened: the open time is taken when the buffer goes from empty
\* to non-empty, a later chunk without a newline leaves it alone, the chunk
\* that completes the line emits it with that time, and the open time is
\* then reset (or taken anew for the bytes after the last newline).
C17_OpenTimeStamp ==
    /\ [](\A k \in Kinds : (prev_data[k] = <<>>) <=> (prev_time[k] = None))
    /\ [][\A k \in Kinds :
            (ppc[k] = "locked" /\ data[k] # <<>> /\ ppc'[k] = "check") =>
                IF FindNL(data[k], 1) = 0
                THEN IF prev_data[k] = <<>>
                     THEN prev_time'[k] = now' /\ now' > now
                     ELSE prev_time'[k] = prev_time[k]
                ELSE /\ prev_data[k] # <<>> =>
                          /\ Len(output') > Len(output)
                          /\ output'[Len(output) + 1] =
                                Rec(k, prev_time[k],
                                    prev_data[k] \o Split(data[k])[1])
                     /\ \/ prev_time'[k] = None /\ prev_data'[k] = <<>>
                        \/ prev_time'[k] > now /\ prev_data'[k] # <<>>]_vars

\* the stdout line "aa" was completed after a stderr record was appended,
\* yet carries a time earlier than that record's
C17_Witness ==
    \E i \in 1..Len(output) :
        /\ output[i].kind = STDOUT
        /\ output[i].data = <<"a", "a">>
        /\ \E j \in 1..(i - 1) :
              /\ output[j].kind = STDERR
              /\ output[j].ts > output[i].ts

\* C18: while pump threads exist every append to result.output is made by
\* the thread that holds the one lock, at most one thread is in an append
\* section at a time, and the lock is released again: the holder can always
\* take the step that releases it, and it is free when run_command returns.
C18_AppendUnderLock ==
    /\ [](/\ \A k \in Kinds : (lock = k) <=> (ppc[k] = "locked")
          /\ (lock = SUPERVISOR) <=> (pc \in {"sig_append", "exc_append"})
          /\ \A k \in Kinds :
                ppc[k] = "locked" => ENABLED (PumpEOF(k) \/ PumpFeed(k))
          /\ pc \in {"sig_append", "exc_append"} =>
                ENABLED (SignalAppend \/ ExceptionAppend)
          /\ pc = "done" => lock = None)
    /\ [][(output' # output /\ child # "none") =>
            (lock # None /\ lock' = None)]_vars

\* the stdout pump is in its append section while the stderr pump and the
\* supervisor both wait for the lock
C18_Witness ==
    /\ lock = STDOUT
    /\ ppc[STDOUT] = "locked"
    /\ ppc[STDERR] = "lock"
    /\ pc \in {"sig_lock", "exc_lock"}

\* the chunks passed to os.write, one after the other
RECURSIVE Concat(_)
Concat(ss) == IF ss = <<>> THEN <<>> ELSE Head(ss) \o Concat(Tail(ss))

\* what C19 says of the stdin pump in every state: it is started only for a
\* non-empty script, its chunks are consecutive slices of the payload
\* shell_env + NL + shell_commands, WRITE_SIZE bytes each but for the last,
\* and at most the chunk in progress is written once the latch is set
StdinChunksInOrder ==
    /\ ipc # "unstarted" => shell_commands # <<>>
    /\ IsPrefix(Concat(chunks), StdinData(shell_env, shell_commands))
    /\ \A i \in 1..Len(chunks) :
          /\ chunks[i] # <<>>
          /\ Len(chunks[i]) <= WRITE_SIZE
          /\ i < Len(chunks) => Len(chunks[i]) = WRITE_SIZE
    /\ lateChunks <= 1

\* C19 as stated: ..., and if the latch is never set the chunks written add
\* up to the whole payload when run_command returns.
C19_StdinPayload ==
    /\ StdinChunksInOrder
    /\ (pc = "done" /\ ipc # "unstarted" /\ received_signal = None) =>
           Concat(chunks) = StdinData(shell_env, shell_commands)

\* C19, amended: ..., and if the latch is never set and no write fails (the
\* pump leaves its loop by itself) the chunks written add up to the whole
\* payload.
C19_StdinPayloadNoWriteError ==
    /\ StdinChunksInOrder
    /\ (ipc \in {"close", "done"} /\ received_signal = None) =>
           Concat(chunks) = StdinData(shell_env, shell_commands)

\* a payload of three chunks was written in full with the latch unset
C19_Witness ==
    /\ ipc = "done"
    /\ received_signal = None
    /\ shell_env = <<"e">>
    /\ Len(chunks) = 3
    /\ Concat(chunks) = <<"e", NL, "x", "y", "z">>

\* C20: when the wait raises (the spinner sink fails), run_command appends
\* exactly one STDERR record 'Exception: ...', calls process.terminate()
\* once, sets returncode to -2, joins every pump it started and returns the
\* result; the exception does not reach the caller.
C20_ExceptionHandled ==
    /\ excLatched => pc \in {"exc_lock", "exc_append", "exc_term",
                              "join_stdin", "join_stdout", "join_stderr",
                              "finish", "done"}
    /\ (excLatched /\ pc = "done") =>
          /\ Len(SyntheticRecords("Exception: ")) = 1
          /\ SyntheticRecords("Exception: ")[1].kind = STDERR
          /\ termCalls = 1
          /\ returncode = -2
          /\ errored
          /\ ended # None
          /\ ipc \in {"unstarted", "done", "died"}
          /\ \A k \in Kinds : ppc[k] = "done"

\* the spinner sink raised while the child was running: the child was sent
\* SIGTERM, the stdin pump and both output pumps were joined
C20_Witness ==
    /\ excLatched
    /\ pc = "done"
    /\ termSent
    /\ childrc = -SIGTERM
    /\ ipc # "unstarted"
    /\ returncode = -2

====
